---------------------------- MODULE Spec2Model ----------------------------
(***************************************************************************)
(* Subscription / plan-enforcement and payment-activation subsystem of the *)
(* clinic backend: the payment ledger (Payment collection), the tenant     *)
(* subscription sub-document, the Razorpay confirmation flow with its      *)
(* awaits as interleaving points, and the doctor-seat checks.              *)
(*                                                                         *)
(* Storage conventions of the model:                                       *)
(*   - a null / absent id is 0, a null string is "";                       *)
(*   - the Payment collection is a sequence, a record's _id is its index;  *)
(*   - the unique sparse indexes on razorpayOrderId / razorpayPaymentId    *)
(*     are modelled as the schema comments state them: unique among the    *)
(*     non-null values;                                                    *)
(*   - subscription.billingCycle and subscription.activatedAt are kept as  *)
(*     the payment service writes them; a timestamp is abstracted to its   *)
(*     presence (0 absent, 1 a date).                                      *)
(***************************************************************************)
EXTENDS Integers, Sequences, FiniteSets, TLC

VARIABLES
    plans,      \* Plan collection: name -> [isActive, monthly, yearly, maxDoctors]
    tenants,    \* Tenant collection: id -> [exists, verified, sub]
    payments,   \* Payment collection (append-only sequence of records)
    gateway,    \* orders created at the payment provider: seq of [amount, tenantId]
    procs,      \* confirmRazorpayPaymentService invocations
    log,        \* per payment record: COMPLETED saves and activation writes applied
    seat,       \* input of a seat check: [status, plan, count]
    chk,        \* outcome of the last seat check
    reg,        \* registration: persisted users / clinics and the open transaction
    ord,        \* createRazorpayOrderService invocation
    doctors     \* Doctor collection of the clinic and its open creation requests

vars == <<plans, tenants, payments, gateway, procs, log, seat, chk, reg, ord, doctors>>

(***************************************************************************)
(* Bounds                                                                  *)
(***************************************************************************)
MaxPayments == 2
MaxSaves    == 2
MaxSeats    == 6
MaxOrders   == 3

Tenants    == {1, 2}
\* Tenants taking part in the payment flow specification.
PayingTenants == {1}
Procs      == {1, 2}
\* Process running the confirmations of the payment flow specification.
SeqProcs   == {1}
PaymentIds == {1, 2}

(***************************************************************************)
(* Enumerations of the schemas and services                                *)
(***************************************************************************)
ALLOWED_PLANS  == {"PRO", "ENTERPRISE", "PROFESSIONAL"}
ALLOWED_CYCLES == {"monthly", "yearly"}
METHODS        == {"RAZORPAY", "MANUAL"}
STATUSES       == {"PENDING", "COMPLETED", "FAILED", "REFUNDED"}
SubscriptionStatuses == {"ACTIVE", "PAST_DUE", "CANCELED", "PENDING_VERIFICATION"}

\* Raw request values for planCode / billingCycle, before normalisation.
RawPlans  == {"pro", " Enterprise ", "PROFESSIONAL", "FREE"}
RawCycles == {"", "YEARLY", "weekly"}

\* String(v || "").trim().toUpperCase() on the raw values above.
TrimUpper(v) ==
    CASE v = "pro"          -> "PRO"
      [] v = " Enterprise " -> "ENTERPRISE"
      [] v = "Professional" -> "PROFESSIONAL"
      [] v = "active"       -> "ACTIVE"
      [] OTHER              -> v

\* String(v || "").toUpperCase(), without trim, on the same values.
toUpperCase(v) ==
    CASE v = "pro"          -> "PRO"
      [] v = " Enterprise " -> " ENTERPRISE "
      [] v = "Professional" -> "PROFESSIONAL"
      [] v = "active"       -> "ACTIVE"
      [] OTHER              -> v

\* String(v).trim().toLowerCase() on the raw values above.
TrimLower(v) ==
    CASE v = "YEARLY" -> "yearly"
      [] OTHER        -> v

normalizePlanCode(v) == TrimUpper(v)

normalizeCycle(v) == TrimLower(IF v = "" THEN "monthly" ELSE v)

(***************************************************************************)
(* Plan catalog                                                            *)
(***************************************************************************)
\* Catalog contents the Plan collection may hold (prices in rupees;
\* maxDoctors -1 is the unlimited sentinel).
Catalogs ==
    { [p \in ALLOWED_PLANS |->
        CASE p = "PRO"        -> [isActive |-> TRUE, monthly |-> 20, yearly |-> 200, maxDoctors |-> 3]
          [] p = "ENTERPRISE" -> [isActive |-> TRUE, monthly |-> 50, yearly |-> 500, maxDoctors |-> 5]
          [] OTHER            -> [isActive |-> TRUE, monthly |-> 90, yearly |-> 900, maxDoctors |-> -1]],
      [p \in ALLOWED_PLANS |->
        CASE p = "PRO"        -> [isActive |-> TRUE,  monthly |-> 25, yearly |-> 0,   maxDoctors |-> 3]
          [] p = "ENTERPRISE" -> [isActive |-> FALSE, monthly |-> 50, yearly |-> 500, maxDoctors |-> 5]
          [] OTHER            -> [isActive |-> TRUE,  monthly |-> 90, yearly |-> 900, maxDoctors |-> -1]] }

\* Catalog of the payment flow: one tier with both prices, one archived tier,
\* one tier whose yearly price is not configured.
PaymentCatalog ==
    [p \in ALLOWED_PLANS |->
        CASE p = "PRO"        -> [isActive |-> TRUE,  monthly |-> 20, yearly |-> 200, maxDoctors |-> 3]
          [] p = "ENTERPRISE" -> [isActive |-> FALSE, monthly |-> 50, yearly |-> 500, maxDoctors |-> 5]
          [] OTHER            -> [isActive |-> TRUE,  monthly |-> 90, yearly |-> 0,   maxDoctors |-> -1]]

\* toPaise: Math.round(n * 100), n a positive whole number of rupees here.
toPaise(amountRupees) == amountRupees * 100

\* getPlanPriceRupees: [ok, error, code, cycle, rupees]
getPlanPriceRupees(catalog, planCode, billingCycle) ==
    LET code  == normalizePlanCode(planCode)
        cycle == normalizeCycle(billingCycle)
        bad(e)  == [ok |-> FALSE, error |-> e, code |-> code, cycle |-> cycle, rupees |-> 0]
    IN  IF code \notin ALLOWED_PLANS THEN bad("INVALID_PLAN")
        ELSE IF cycle \notin ALLOWED_CYCLES THEN bad("INVALID_CYCLE")
        ELSE IF ~catalog[code].isActive THEN bad("PLAN_NOT_FOUND")
        ELSE LET rupees == IF cycle = "yearly" THEN catalog[code].yearly
                                               ELSE catalog[code].monthly
             IN  IF rupees <= 0 THEN bad("INVALID_PRICE_CONFIG")
                 ELSE [ok |-> TRUE, error |-> "", code |-> code, cycle |-> cycle,
                       rupees |-> rupees]

(***************************************************************************)
(* Records                                                                 *)
(***************************************************************************)
NoSignature == <<>>

NoSubscription ==
    [plan |-> "", billingCycle |-> "", status |-> "", razorpayOrderId |-> 0,
     razorpayPaymentId |-> 0, activatedAt |-> 0]

NoTenant == [exists |-> FALSE, verified |-> FALSE, sub |-> NoSubscription]

NoResult ==
    [status |-> "none", tenantId |-> 0, planCode |-> "", razorpayOrderId |-> 0,
     razorpayPaymentId |-> 0]

ErrorResult(e) == [NoResult EXCEPT !.status = e]

NoSnap == [idx |-> 0, status |-> "", razorpayPaymentId |-> 0,
           razorpaySignature |-> NoSignature]

\* A confirmation call: its position, its arguments, the document it loaded,
\* and, once it has returned, how it ended (the branch taken and the status of
\* the result or the error thrown).
IdleProc ==
    [pc |-> "idle", orderId |-> 0, paymentId |-> 0, signature |-> NoSignature,
     snap |-> NoSnap, branch |-> "", outcome |-> "none"]

(***************************************************************************)
(* Payment collection helpers                                              *)
(***************************************************************************)
\* Payment.findOne({ razorpayOrderId }): index of the record, 0 when absent.
\* Variant of the lookup that falls back to the latest record when no record
\* carries the order id.
FindPaymentOrLatest(pays, orderId) ==
    IF \E i \in 1..Len(pays) : pays[i].razorpayOrderId = orderId /\ orderId # 0
    THEN CHOOSE i \in 1..Len(pays) : pays[i].razorpayOrderId = orderId
    ELSE Len(pays)

FindPayment(pays, orderId) ==
    IF \E i \in 1..Len(pays) : pays[i].razorpayOrderId = orderId /\ orderId # 0
    THEN CHOOSE i \in 1..Len(pays) : pays[i].razorpayOrderId = orderId
    ELSE 0

\* Variant without the unique index on razorpayPaymentId.
PaymentIdTakenNoIndex(pays, idx, pid) == FALSE

\* unique sparse index on razorpayPaymentId: another record holds the value
PaymentIdTaken(pays, idx, pid) ==
    pid # 0 /\ \E i \in 1..Len(pays) : i # idx /\ pays[i].razorpayPaymentId = pid

\* unique sparse index on razorpayOrderId
OrderIdTaken(pays, oid) ==
    oid # 0 /\ \E i \in 1..Len(pays) : pays[i].razorpayOrderId = oid

HasCompletedPayment(pays, t) ==
    \E i \in 1..Len(pays) : pays[i].tenantId = t /\ pays[i].status = "COMPLETED"


(***************************************************************************)
(* Signature verification                                                  *)
(***************************************************************************)
RAZORPAY_KEY_SECRET == "key_secret"
WrongSecret         == "other_secret"

\* crypto.createHmac("sha256", secret).update(`${orderId}|${paymentId}`).digest("hex"),
\* modelled as a collision-free function of (secret, orderId, paymentId).
HmacSha256(secret, orderId, paymentId) == <<secret, orderId, paymentId>>

\* verifyPaymentSignature
verifyPaymentSignature(orderId, paymentId, signature) ==
    IF orderId = 0 \/ paymentId = 0 \/ signature = NoSignature THEN FALSE
    ELSE HmacSha256(RAZORPAY_KEY_SECRET, orderId, paymentId) = signature

\* Signatures a caller presents for (orderId, paymentId): the genuine one and
\* one computed with the wrong secret.
SignaturesFor(orderId, paymentId) ==
    { HmacSha256(RAZORPAY_KEY_SECRET, orderId, paymentId),
      HmacSha256(WrongSecret, orderId, paymentId) }

(***************************************************************************)
(* Document writes of confirmRazorpayPaymentService, as functions of the   *)
(* stored collections                                                      *)
(***************************************************************************)
\* payment.save() of a document loaded earlier: only the paths whose value
\* differs from the loaded one are $set; the unique index on
\* razorpayPaymentId rejects the write (E11000) and nothing is stored.
SavePayment(pays, snap, newStatus, pid, sig) ==
    LET idx       == snap.idx
        cur       == pays[idx]
        setStatus == newStatus # snap.status
        setPid    == pid # snap.razorpayPaymentId
        setSig    == sig # snap.razorpaySignature
    IN  IF setPid /\ PaymentIdTaken(pays, idx, pid)
        THEN [ok |-> FALSE, written |-> FALSE, statusWritten |-> FALSE, pays |-> pays]
        ELSE IF ~(setStatus \/ setPid \/ setSig)
        THEN [ok |-> TRUE, written |-> FALSE, statusWritten |-> FALSE, pays |-> pays]
        ELSE [ok |-> TRUE, written |-> TRUE, statusWritten |-> setStatus,
              pays |-> [pays EXCEPT ![idx] =
                  [cur EXCEPT !.status = IF setStatus THEN newStatus ELSE @,
                              !.razorpayPaymentId = IF setPid THEN pid ELSE @,
                              !.razorpaySignature = IF setSig THEN sig ELSE @]]]

\* Variant of the self-heal filter without the "subscription.status" condition.
SelfHealMatchesAnyStatus(tens, t) == t \in DOMAIN tens /\ tens[t].exists

\* Tenant.updateOne({_id, "subscription.status": {$ne: "ACTIVE"}}, {$set: ...})
\* of the already-COMPLETED branch (self-heal).
SelfHealMatches(tens, t) ==
    t \in DOMAIN tens /\ tens[t].exists /\ tens[t].sub.status # "ACTIVE"

\* Variant of the self-heal write that sets the status and leaves the plan.
SelfHealTenantKeepsPlan(tens, pay, snap) ==
    IF SelfHealMatches(tens, pay.tenantId)
    THEN [tens EXCEPT ![pay.tenantId].sub =
            [@ EXCEPT !.status = "ACTIVE",
                      !.razorpayPaymentId = snap.razorpayPaymentId,
                      !.activatedAt = 1]]
    ELSE tens

\* The $set of the self-heal update.
SelfHealTenant(tens, pay, snap) ==
    IF SelfHealMatches(tens, pay.tenantId)
    THEN [tens EXCEPT ![pay.tenantId].sub =
            [@ EXCEPT !.plan = pay.planCode,
                      !.status = "ACTIVE",
                      !.razorpayPaymentId = snap.razorpayPaymentId,
                      !.activatedAt = 1]]
    ELSE tens

\* Tenant.updateOne({_id, "subscription.razorpayOrderId": orderId}, {$set: ...})
ActivateMatches(tens, t, orderId) ==
    t \in DOMAIN tens /\ tens[t].exists /\ tens[t].sub.razorpayOrderId = orderId

ActivateTenant(tens, pay, orderId, pid) ==
    IF ActivateMatches(tens, pay.tenantId, orderId)
    THEN [tens EXCEPT ![pay.tenantId].sub =
            [@ EXCEPT !.plan = pay.planCode,
                      !.status = "ACTIVE",
                      !.razorpayPaymentId = pid,
                      !.billingCycle = IF pay.billingCycle = "" THEN "monthly"
                                       ELSE pay.billingCycle,
                      !.activatedAt = 1]]
    ELSE tens

SnapOf(pays, idx) ==
    [idx |-> idx, status |-> pays[idx].status,
     razorpayPaymentId |-> pays[idx].razorpayPaymentId,
     razorpaySignature |-> pays[idx].razorpaySignature]

OkResult(pay, orderId, pid) ==
    [status |-> "COMPLETED", tenantId |-> pay.tenantId, planCode |-> pay.planCode,
     razorpayOrderId |-> orderId, razorpayPaymentId |-> pid]

\* Variant of the idempotency guard that tests the wrong status, so that a
\* COMPLETED record is verified, saved and activated again.
AlreadyCompletedWrongStatus(snap) == snap.status = "FAILED"

\* The idempotency guard: if (payment.status === "COMPLETED")
AlreadyCompleted(snap) == snap.status = "COMPLETED"

\* One whole call of confirmRazorpayPaymentService run without interleaving,
\* from the collections (pays, tens): the collections it leaves, the value
\* returned or the error thrown, and the number of payment / tenant documents
\* it wrote.
confirmRazorpayPaymentService(pays, tens, orderId, pid, sig) ==
    LET idx  == FindPayment(pays, orderId)
        out(ps, ts, r, pw, tw) ==
            [pays |-> ps, tens |-> ts, result |-> r, paymentWrites |-> pw,
             tenantWrites |-> tw]
    IN  IF orderId = 0 \/ pid = 0 \/ sig = NoSignature
        THEN out(pays, tens, ErrorResult("MISSING_FIELDS"), 0, 0)
        ELSE IF idx = 0
        THEN out(pays, tens, ErrorResult("PAYMENT_NOT_FOUND"), 0, 0)
        ELSE LET snap == SnapOf(pays, idx)
                 pay  == pays[idx]
             IN  IF AlreadyCompleted(snap)
                 THEN out(pays, SelfHealTenant(tens, pay, snap),
                          OkResult(pay, pay.razorpayOrderId, snap.razorpayPaymentId),
                          0, IF SelfHealMatches(tens, pay.tenantId) THEN 1 ELSE 0)
                 ELSE IF ~verifyPaymentSignature(orderId, pid, sig)
                 THEN LET w == SavePayment(pays, snap, "FAILED", pid, sig)
                      IN  out(w.pays, tens,
                              ErrorResult(IF w.ok THEN "SIGNATURE_MISMATCH"
                                          ELSE "DUPLICATE_KEY"),
                              IF w.written THEN 1 ELSE 0, 0)
                 ELSE LET w == SavePayment(pays, snap, "COMPLETED", pid, sig)
                      IN  IF ~w.ok
                          THEN out(w.pays, tens, ErrorResult("DUPLICATE_KEY"), 0, 0)
                          ELSE IF ~ActivateMatches(tens, pay.tenantId, orderId)
                          THEN out(w.pays, tens, ErrorResult("TENANT_UPDATE_FAILED"),
                                   IF w.written THEN 1 ELSE 0, 0)
                          ELSE out(w.pays, ActivateTenant(tens, pay, orderId, pid),
                                   OkResult(pay, orderId, pid),
                                   IF w.written THEN 1 ELSE 0, 1)

(***************************************************************************)
(* Tenant registration and e-mail verification                             *)
(***************************************************************************)
\* getPlanDetails(planName).plan: String(planName || "PRO").toUpperCase().trim()
getPlanDetails(planName) == TrimUpper(IF planName = "" THEN "PRO" ELSE planName)

\* registerClinicTransaction: owner user + tenant created together, the tenant
\* with subscription.status PENDING_VERIFICATION; the tenant schema's plan enum
\* rejects a plan outside PRO / ENTERPRISE / PROFESSIONAL.
registerClinicTransaction(t, rawPlan) ==
    /\ ~tenants[t].exists
    /\ getPlanDetails(rawPlan) \in ALLOWED_PLANS
    /\ tenants' = [tenants EXCEPT ![t] =
          [exists |-> TRUE, verified |-> FALSE,
           sub |-> [NoSubscription EXCEPT !.plan = getPlanDetails(rawPlan),
                                          !.status = "PENDING_VERIFICATION"]]]
    /\ UNCHANGED <<plans, payments, gateway, procs, log, seat, chk, reg, ord, doctors>>

\* Variant of verifyUserEmail that also moves the tenant to PENDING_PAYMENT.
verifyUserEmailMarksTenant(t) ==
    /\ tenants[t].exists
    /\ ~tenants[t].verified
    /\ tenants' = [tenants EXCEPT ![t].verified = TRUE,
                                  ![t].sub.status = "PENDING_PAYMENT"]
    /\ UNCHANGED <<plans, payments, gateway, procs, log, seat, chk, reg, ord, doctors>>

\* verifyUserEmail: marks the owner verified; the tenant document is not written.
verifyUserEmail(t) ==
    /\ tenants[t].exists
    /\ ~tenants[t].verified
    /\ tenants' = [tenants EXCEPT ![t].verified = TRUE]
    /\ UNCHANGED <<plans, payments, gateway, procs, log, seat, chk, reg, ord, doctors>>

(***************************************************************************)
(* Payment creation                                                        *)
(***************************************************************************)
NewPayment(t, code, cycle, amountPaise, method, orderId, ref, clientAmount) ==
    [tenantId |-> t, amountPaise |-> amountPaise, planCode |-> code,
     billingCycle |-> cycle, method |-> method, status |-> "PENDING",
     razorpayOrderId |-> orderId, razorpayPaymentId |-> 0,
     razorpaySignature |-> NoSignature, transactionRef |-> ref,
     clientAmountRupees |-> clientAmount]

NoLog == [saves |-> 0, activations |-> 0]

\* createRazorpayOrderService: price from the Plan collection, order at the
\* provider, Payment(PENDING), then the selection stored on the tenant.
\* bodyAmount is an amount field of the request body; the controller does not
\* read it.
createRazorpayOrderService(t, rawPlan, rawCycle, bodyAmount) ==
    LET price == getPlanPriceRupees(plans, rawPlan, rawCycle)
        amountPaise == toPaise(price.rupees)
        orderId == Len(gateway) + 1
    IN  /\ tenants[t].exists
        /\ price.ok
        /\ Len(payments) < MaxPayments
        /\ ~OrderIdTaken(payments, orderId)
        /\ gateway' = Append(gateway, [amount |-> amountPaise, tenantId |-> t])
        /\ payments' = Append(payments,
              NewPayment(t, price.code, price.cycle, amountPaise, "RAZORPAY",
                         orderId, "", 0))
        /\ log' = Append(log, NoLog)
        /\ tenants' = [tenants EXCEPT ![t].sub =
              [@ EXCEPT !.plan = price.code,
                        !.billingCycle = price.cycle,
                        !.razorpayOrderId = orderId,
                        !.status = "PENDING_VERIFICATION"]]
        /\ UNCHANGED <<plans, procs, seat, chk, reg, ord, doctors>>

\* Variant that charges the amount the client submitted when there is one.
manualAmountPaiseFromClient(rupees, amountRupees) ==
    toPaise(IF amountRupees # 0 THEN amountRupees ELSE rupees)

\* const amountPaise = toPaise(rupees): the rupees of the catalog lookup; the
\* amountRupees argument is not read.
manualAmountPaise(rupees, amountRupees) == toPaise(rupees)

\* submitManualPaymentService: canonical price again, Payment(PENDING, MANUAL),
\* then the tenant update; amountRupees is only kept in metadata.
submitManualPaymentService(t, rawPlan, rawCycle, amountRupees) ==
    LET code  == normalizePlanCode(rawPlan)
        cycle == normalizeCycle(rawCycle)
        price == getPlanPriceRupees(plans, code, cycle)
        amountPaise == manualAmountPaise(price.rupees, amountRupees)
    IN  /\ code \in ALLOWED_PLANS
        /\ cycle \in ALLOWED_CYCLES
        /\ price.ok
        /\ Len(payments) < MaxPayments
        /\ payments' = Append(payments,
              NewPayment(t, code, cycle, amountPaise, "MANUAL", 0, "UTR",
                         amountRupees))
        /\ log' = Append(log, NoLog)
        /\ tenants' = IF tenants[t].exists
                      THEN [tenants EXCEPT ![t].sub =
                              [@ EXCEPT !.plan = code,
                                        !.billingCycle = cycle,
                                        !.status = "PENDING_VERIFICATION"]]
                      ELSE tenants
        /\ UNCHANGED <<plans, gateway, procs, seat, chk, reg, ord, doctors>>

\* activateSubscriptionAfterPayment -> activateTenantSubscription: the endpoint
\* takes the payment references and the plan from the request body.
activateTenantSubscription(t, orderId, pid, rawPlan) ==
    /\ pid # 0
    /\ tenants[t].exists
    /\ rawPlan # "" => getPlanDetails(rawPlan) \in ALLOWED_PLANS
    /\ tenants' = [tenants EXCEPT ![t].sub =
          [@ EXCEPT !.status = "ACTIVE",
                    !.razorpayOrderId = orderId,
                    !.razorpayPaymentId = pid,
                    !.plan = IF rawPlan # "" THEN getPlanDetails(rawPlan) ELSE @]]
    /\ UNCHANGED <<plans, payments, gateway, procs, log, seat, chk, reg, ord, doctors>>

(***************************************************************************)
(* confirmRazorpayPaymentService as a process: every await is a step       *)
(***************************************************************************)
\* Order ids a caller may name: those the provider issued and one it never issued.
OrderIdInputs == 1..(Len(gateway) + 1)

Returned(pr, branch, outcome) ==
    [pr EXCEPT !.pc = "idle", !.orderId = 0, !.paymentId = 0,
               !.signature = NoSignature, !.snap = NoSnap,
               !.branch = branch, !.outcome = outcome]

\* await Payment.findOne({ razorpayOrderId }); a missing record ends the call.
ConfirmFind(p, orderId, pid, sig) ==
    LET idx == FindPayment(payments, orderId)
    IN  /\ procs[p].pc = "idle"
        /\ idx # 0 => log[idx].saves < MaxSaves
        /\ procs' = [procs EXCEPT ![p] =
              IF idx = 0
              THEN Returned(@, "notfound", "PAYMENT_NOT_FOUND")
              ELSE [pc |-> "found", orderId |-> orderId, paymentId |-> pid,
                    signature |-> sig, snap |-> SnapOf(payments, idx),
                    branch |-> "", outcome |-> "none"]]
        /\ UNCHANGED <<plans, tenants, payments, gateway, log, seat, chk, reg, ord, doctors>>

\* The value the already-COMPLETED branch returns.
SelfHealResult(p) ==
    LET pay == payments[procs[p].snap.idx]
    IN  OkResult(pay, pay.razorpayOrderId, procs[p].snap.razorpayPaymentId)

\* already COMPLETED: await Tenant.updateOne(self-heal), return the stored result
ConfirmSelfHeal(p) ==
    LET pr  == procs[p]
        pay == payments[pr.snap.idx]
    IN  /\ pr.pc = "found"
        /\ AlreadyCompleted(pr.snap)
        /\ tenants' = SelfHealTenant(tenants, pay, pr.snap)
        /\ procs' = [procs EXCEPT ![p] = Returned(@, "idempotent", "COMPLETED")]
        /\ UNCHANGED <<plans, payments, gateway, log, seat, chk, reg, ord, doctors>>

\* signature mismatch: payment.status = "FAILED"; await payment.save(); throw
ConfirmSaveFailed(p) ==
    LET pr == procs[p]
        w  == SavePayment(payments, pr.snap, "FAILED", pr.paymentId, pr.signature)
    IN  /\ pr.pc = "found"
        /\ ~AlreadyCompleted(pr.snap)
        /\ ~verifyPaymentSignature(pr.orderId, pr.paymentId, pr.signature)
        /\ payments' = w.pays
        /\ procs' = [procs EXCEPT ![p] =
              Returned(@, "mismatch",
                       IF w.ok THEN "SIGNATURE_MISMATCH" ELSE "DUPLICATE_KEY")]
        /\ UNCHANGED <<plans, tenants, gateway, log, seat, chk, reg, ord, doctors>>

\* signature verified: payment.status = "COMPLETED"; await payment.save()
ConfirmSaveCompleted(p) ==
    LET pr == procs[p]
        w  == SavePayment(payments, pr.snap, "COMPLETED", pr.paymentId, pr.signature)
    IN  /\ pr.pc = "found"
        /\ ~AlreadyCompleted(pr.snap)
        /\ verifyPaymentSignature(pr.orderId, pr.paymentId, pr.signature)
        /\ payments' = w.pays
        /\ log' = IF w.ok /\ w.statusWritten
                  THEN [log EXCEPT ![pr.snap.idx].saves = @ + 1]
                  ELSE log
        /\ procs' = [procs EXCEPT ![p] =
              IF w.ok THEN [@ EXCEPT !.pc = "saved", !.branch = "verified"]
              ELSE Returned(@, "verified", "DUPLICATE_KEY")]
        /\ UNCHANGED <<plans, tenants, gateway, seat, chk, reg, ord, doctors>>

\* The value the verified branch returns when the tenant update matched.
ActivateResult(p) ==
    OkResult(payments[procs[p].snap.idx], procs[p].orderId, procs[p].paymentId)

\* await Tenant.updateOne(activate); matchedCount === 0 throws
ConfirmActivate(p) ==
    LET pr  == procs[p]
        pay == payments[pr.snap.idx]
        hit == ActivateMatches(tenants, pay.tenantId, pr.orderId)
    IN  /\ pr.pc = "saved"
        /\ tenants' = ActivateTenant(tenants, pay, pr.orderId, pr.paymentId)
        /\ log' = IF hit THEN [log EXCEPT ![pr.snap.idx].activations = @ + 1] ELSE log
        /\ procs' = [procs EXCEPT ![p] =
              Returned(@, "verified",
                       IF hit THEN "COMPLETED" ELSE "TENANT_UPDATE_FAILED")]
        /\ UNCHANGED <<plans, payments, gateway, seat, chk, reg, ord, doctors>>

(***************************************************************************)
(* Requests: the payment routes run behind protectPayment, whose token is  *)
(* issued once the owner's e-mail is verified                              *)
(***************************************************************************)
protectPayment(t) == tenants[t].exists /\ tenants[t].verified

\* Amount fields a request body may carry (rupees): absent, the PRO monthly
\* price, and a different value.
BodyAmounts == {0, 20, 1}

\* Plans a registration request names: none (defaults to PRO) and one the
\* tenant schema rejects.
RegistrationPlans == {"", "FREE"}

Register ==
    \E t \in PayingTenants, rp \in RegistrationPlans : registerClinicTransaction(t, rp)

VerifyEmail == \E t \in PayingTenants : verifyUserEmail(t)

CreateOrder ==
    \E t \in PayingTenants, rp \in RawPlans, rc \in RawCycles, a \in BodyAmounts :
        /\ protectPayment(t)
        /\ createRazorpayOrderService(t, rp, rc, a)

SubmitManual ==
    \E t \in PayingTenants, rp \in RawPlans, rc \in RawCycles, a \in BodyAmounts :
        /\ protectPayment(t)
        /\ submitManualPaymentService(t, rp, rc, a)

ActivateEndpoint ==
    \E t \in PayingTenants, rp \in {"", "PROFESSIONAL"} :
        /\ protectPayment(t)
        /\ activateTenantSubscription(t, 0, 1, rp)

ConfirmBegin(P) ==
    \E p \in P, o \in OrderIdInputs, pid \in PaymentIds :
        \E sig \in SignaturesFor(o, pid) : ConfirmFind(p, o, pid, sig)

ConfirmStep(P) ==
    \E p \in P :
        \/ ConfirmSelfHeal(p)
        \/ ConfirmSaveFailed(p)
        \/ ConfirmSaveCompleted(p)
        \/ ConfirmActivate(p)

(***************************************************************************)
(* Specification of the payment / subscription flow                        *)
(***************************************************************************)
NoSeat == [status |-> "", plan |-> "", count |-> 0]

NoCheck == [variant |-> "", outcome |-> "none", plan |-> "", limit |-> 0, countCalls |-> 0]

\* No document (of a transaction that has not written it yet).
NoDoc == <<>>

\* A registration call: its position, its arguments and the documents it has
\* written inside its session.
NoTx ==
    [pc |-> "idle", email |-> "", registrationId |-> 0, plan |-> "",
     user |-> NoDoc, tenant |-> NoDoc]

\* The User and Tenant collections as registration sees them, the open
\* transaction, and how the last call ended.
NoReg == [users |-> {}, clinics |-> {}, tx |-> NoTx, outcome |-> "none", failedAt |-> ""]

\* A createRazorpayOrderService call: its position, its arguments, the ledger
\* length and the tenant subscription when it began, and how it ended.
NoOrd ==
    [pc |-> "idle", tenantId |-> 0, code |-> "", cycle |-> "", amountPaise |-> 0,
     orderId |-> 0, nPayments |-> 0, sub |-> NoSubscription, outcome |-> "none"]

\* Doctor-creation requests that may be open at once
Requests == {1, 2, 3}

\* The clinic's Doctor collection, counted by isDeleted, and the position of
\* each open POST /api/doctors request.
NoDoctors == [count |-> 0, deleted |-> 0, req |-> [r \in Requests |-> "idle"]]

Init ==
    /\ plans = PaymentCatalog
    /\ tenants = [t \in Tenants |-> NoTenant]
    /\ payments = <<>>
    /\ gateway = <<>>
    /\ procs = [p \in Procs |-> IdleProc]
    /\ log = <<>>
    /\ seat = NoSeat
    /\ chk = NoCheck
    /\ reg = NoReg
    /\ ord = NoOrd
    /\ doctors = NoDoctors

Next ==
    \/ Register
    \/ VerifyEmail
    \/ CreateOrder
    \/ SubmitManual
    \/ ActivateEndpoint
    \/ ConfirmBegin(SeqProcs)
    \/ ConfirmStep(SeqProcs)

Spec == Init /\ [][Next]_vars

TypeOK ==
    /\ plans \in Catalogs \cup {PaymentCatalog}
    /\ Len(payments) <= MaxPayments
    /\ Len(log) = Len(payments)
    /\ \A i \in 1..Len(payments) :
          /\ payments[i].status \in STATUSES
          /\ payments[i].method \in METHODS
          /\ payments[i].planCode \in ALLOWED_PLANS
          /\ payments[i].billingCycle \in ALLOWED_CYCLES
    /\ \A t \in Tenants : tenants[t].exists => tenants[t].sub.status \in SubscriptionStatuses

(***************************************************************************)
(* Doctor-seat checks (EntitlementEvaluator): the two revisions of the     *)
(* service-layer check and the two revisions of the route middleware       *)
(***************************************************************************)
Unlimited == [inf |-> TRUE, n |-> 0]

Finite(n) == [inf |-> FALSE, n |-> n]

\* getPlanLimit of services/doctorService.js
getPlanLimit(plan) ==
    LET p == toUpperCase(plan)
    IN  CASE p = "PRO"          -> Finite(3)
          [] p = "ENTERPRISE"   -> Finite(5)
          [] p = "PROFESSIONAL" -> Unlimited
          [] OTHER              -> Finite(0)

\* getPlanLimit of the other revision of the doctor service
getPlanLimitV2(plan) ==
    LET p == toUpperCase(plan)
    IN  CASE p = "FREE"         -> Finite(1)
          [] p = "PRO"          -> Finite(3)
          [] p = "ENTERPRISE"   -> Finite(10)
          [] p = "PROFESSIONAL" -> Unlimited
          [] p = "UNLIMITED"    -> Unlimited
          [] OTHER              -> Finite(0)

CheckResult(variant, outcome, plan, limit, countCalls) ==
    [variant |-> variant, outcome |-> outcome, plan |-> plan, limit |-> limit,
     countCalls |-> countCalls]

\* Variant of the status test that also lets a PAST_DUE subscription through.
SubscriptionInactiveLenient(status) ==
    toUpperCase(status) \notin {"ACTIVE", "PAST_DUE"}

\* const status = String(...).toUpperCase(); if (status !== "ACTIVE") throw
SubscriptionInactive(status) == toUpperCase(status) # "ACTIVE"

\* Variant of the seat test that is off by one.
LimitReachedOffByOne(currentCount, limit) == currentCount > limit

\* if (currentCount >= limit) throw DOCTOR_LIMIT_REACHED
LimitReached(currentCount, limit) == currentCount >= limit

\* DoctorService.assertTenantCanAddDoctor (services/doctorService.js):
\* the unlimited tier returns before Doctor.countDocuments.
assertTenantCanAddDoctor(status, plan, count) ==
    LET p     == toUpperCase(plan)
        limit == getPlanLimit(p)
    IN  IF SubscriptionInactive(status)
        THEN CheckResult("service", "SUBSCRIPTION_INACTIVE", "", 0, 0)
        ELSE IF limit.inf
        THEN CheckResult("service", "OK", p, 0, 0)
        ELSE IF LimitReached(count, limit.n)
        THEN CheckResult("service", "DOCTOR_LIMIT_REACHED", p, limit.n, 1)
        ELSE CheckResult("service", "OK", p, limit.n, 1)

\* DoctorService.assertTenantCanAddDoctor of the other revision:
\* Doctor.countDocuments runs before the limit is looked at, and the error
\* message names the plan only.
assertTenantCanAddDoctorV2(status, plan, count) ==
    LET st    == toUpperCase(status)
        p     == toUpperCase(plan)
        limit == getPlanLimitV2(p)
    IN  IF st # "ACTIVE"
        THEN CheckResult("serviceV2", "SUBSCRIPTION_INACTIVE", "", 0, 0)
        ELSE IF ~limit.inf /\ count >= limit.n
        THEN CheckResult("serviceV2", "DOCTOR_LIMIT_REACHED", p, 0, 1)
        ELSE CheckResult("serviceV2", "OK", p, limit.n, 1)

\* enforceDoctorLimit (middlewares/enforceDoctorLimit.js), hard-coded limits
enforceDoctorLimit(status, plan, count) ==
    LET p     == toUpperCase(plan)
        st    == toUpperCase(status)
        limit == CASE p = "PRO"          -> Finite(3)
                   [] p = "ENTERPRISE"   -> Finite(5)
                   [] p = "PROFESSIONAL" -> Unlimited
                   [] OTHER              -> Finite(0)
    IN  IF st # "ACTIVE"
        THEN CheckResult("middleware", "SUBSCRIPTION_INACTIVE", "", 0, 0)
        ELSE IF ~limit.inf /\ limit.n = 0
        THEN CheckResult("middleware", "PLAN_NOT_ALLOWED", p, 0, 0)
        ELSE IF limit.inf
        THEN CheckResult("middleware", "OK", p, 0, 0)
        ELSE IF count >= limit.n
        THEN CheckResult("middleware", "DOCTOR_LIMIT_REACHED", p, limit.n, 1)
        ELSE CheckResult("middleware", "OK", p, limit.n, 1)

\* enforceDoctorLimit of the other revision: limits.maxDoctors of the Plan
\* collection, -1 meaning unlimited
enforceDoctorLimitDb(catalog, status, plan, count) ==
    LET planName == toUpperCase(plan)
        st       == toUpperCase(status)
    IN  IF st # "ACTIVE"
        THEN CheckResult("middlewareDb", "SUBSCRIPTION_INACTIVE", "", 0, 0)
        ELSE IF planName = ""
        THEN CheckResult("middlewareDb", "PLAN_MISSING", "", 0, 0)
        ELSE IF planName \notin DOMAIN catalog \/ ~catalog[planName].isActive
        THEN CheckResult("middlewareDb", "PLAN_NOT_FOUND", planName, 0, 0)
        ELSE LET maxDoctors == catalog[planName].maxDoctors
             IN  IF maxDoctors = -1
                 THEN CheckResult("middlewareDb", "OK", planName, 0, 0)
                 ELSE IF maxDoctors < 0
                 THEN CheckResult("middlewareDb", "INVALID_CONFIG", planName, 0, 0)
                 ELSE IF count >= maxDoctors
                 THEN CheckResult("middlewareDb", "DOCTOR_LIMIT_REACHED", planName,
                                  maxDoctors, 1)
                 ELSE CheckResult("middlewareDb", "OK", planName, maxDoctors, 1)

\* Plan values a tenant document may carry (the schema revisions' enums and
\* an empty value).
TenantPlans == {"PRO", "ENTERPRISE", "PROFESSIONAL", "FREE", "Professional", ""}

\* Status values the seat checks may read from a tenant document: the schema's
\* enum and a value outside it (Tenant.updateOne runs no validators).
StoredStatuses == SubscriptionStatuses \cup {"PENDING_PAYMENT"}

SeatInit ==
    /\ plans \in Catalogs
    /\ seat \in [status : StoredStatuses, plan : TenantPlans, count : 0..MaxSeats]
    /\ chk = NoCheck
    /\ reg = NoReg
    /\ ord = NoOrd
    /\ doctors = NoDoctors
    /\ tenants = [t \in Tenants |-> NoTenant]
    /\ payments = <<>>
    /\ gateway = <<>>
    /\ procs = [p \in Procs |-> IdleProc]
    /\ log = <<>>

CheckService ==
    /\ chk' = assertTenantCanAddDoctor(seat.status, seat.plan, seat.count)
    /\ UNCHANGED <<plans, tenants, payments, gateway, procs, log, seat, reg, ord, doctors>>

CheckServiceV2 ==
    /\ chk' = assertTenantCanAddDoctorV2(seat.status, seat.plan, seat.count)
    /\ UNCHANGED <<plans, tenants, payments, gateway, procs, log, seat, reg, ord, doctors>>

CheckMiddleware ==
    /\ chk' = enforceDoctorLimit(seat.status, seat.plan, seat.count)
    /\ UNCHANGED <<plans, tenants, payments, gateway, procs, log, seat, reg, ord, doctors>>

CheckMiddlewareDb ==
    /\ chk' = enforceDoctorLimitDb(plans, seat.status, seat.plan, seat.count)
    /\ UNCHANGED <<plans, tenants, payments, gateway, procs, log, seat, reg, ord, doctors>>

SeatNext ==
    \/ CheckService
    \/ CheckServiceV2
    \/ CheckMiddleware
    \/ CheckMiddlewareDb

SpecSeat == SeatInit /\ [][SeatNext]_vars

(***************************************************************************)
(* Specification of concurrent confirmations: a verified tenant, checkout  *)
(* orders for the PRO tier, and confirmation calls interleaved at their    *)
(* awaits                                                                  *)
(***************************************************************************)
RaceInit ==
    /\ plans = PaymentCatalog
    /\ tenants = [t \in Tenants |->
          IF t \in PayingTenants
          THEN [exists |-> TRUE, verified |-> TRUE,
                sub |-> [NoSubscription EXCEPT !.plan = "PRO",
                                               !.status = "PENDING_VERIFICATION"]]
          ELSE NoTenant]
    /\ payments = <<>>
    /\ gateway = <<>>
    /\ procs = [p \in Procs |-> IdleProc]
    /\ log = <<>>
    /\ seat = NoSeat
    /\ chk = NoCheck
    /\ reg = NoReg
    /\ ord = NoOrd
    /\ doctors = NoDoctors

CreateOrderPro ==
    \E t \in PayingTenants : protectPayment(t) /\ createRazorpayOrderService(t, "pro", "", 0)

RaceNext ==
    \/ CreateOrderPro
    \/ ConfirmBegin(Procs)
    \/ ConfirmStep(Procs)

SpecRace == RaceInit /\ [][RaceNext]_vars

(***************************************************************************)
(* Properties of the payment flow                                          *)
(***************************************************************************)
RecordsOfOrder(pays, orderId) ==
    {i \in 1..Len(pays) : pays[i].razorpayOrderId = orderId}

\* C1: idempotence of confirmProviderPayment. From every reachable state and
\* for every (orderId, paymentId, signature): if a call succeeds, then a second
\* call with the same arguments, run on the collections the first call left,
\* returns the same result, writes no payment and no tenant document (no
\* second activation, the collections are unchanged), and there is exactly one
\* PaymentRecord for the order, COMPLETED, with its tenant ACTIVE.
C1_ConfirmIdempotent ==
    \A o \in OrderIdInputs, pid \in PaymentIds :
        \A sig \in SignaturesFor(o, pid) :
            LET first  == confirmRazorpayPaymentService(payments, tenants, o, pid, sig)
                second == confirmRazorpayPaymentService(first.pays, first.tens, o, pid, sig)
            IN  first.result.status = "COMPLETED" =>
                  /\ second.result = first.result
                  /\ second.pays = first.pays
                  /\ second.tens = first.tens
                  /\ second.paymentWrites = 0
                  /\ second.tenantWrites = 0
                  /\ Cardinality(RecordsOfOrder(second.pays, o)) = 1
                  /\ \A i \in RecordsOfOrder(second.pays, o) :
                        /\ second.pays[i].status = "COMPLETED"
                        /\ second.tens[second.pays[i].tenantId].sub.status = "ACTIVE"

\* C1 witness: a confirmation has succeeded through the verified path, and a
\* later call for the same order has returned through the idempotent branch.
C1_Witness ==
    \E p \in Procs, i \in 1..Len(payments) :
        /\ procs[p].pc = "idle"
        /\ procs[p].branch = "idempotent"
        /\ procs[p].outcome = "COMPLETED"
        /\ payments[i].status = "COMPLETED"
        /\ log[i].saves = 1
        /\ log[i].activations = 1
        /\ tenants[payments[i].tenantId].sub.status = "ACTIVE"

\* C2: for every interleaving of two concurrent confirmations of the same
\* PENDING order, the PENDING -> COMPLETED write of the PaymentRecord is
\* applied by at most one call and the tenant-activation write is performed
\* at most once.
C2_AtMostOneTransition ==
    \A i \in 1..Len(payments) : log[i].saves <= 1 /\ log[i].activations <= 1

\* C3: a confirmation of a record that is not COMPLETED, with a signature that
\* does not verify, returns SignatureMismatch, leaves the record FAILED and
\* leaves every tenant's subscription status as it was, for any paymentId.
C3_BadSignatureMarksFailed ==
    [][\A p \in Procs :
          ( /\ procs[p].pc = "found"
            /\ payments[procs[p].snap.idx].status # "COMPLETED"
            /\ ~verifyPaymentSignature(procs[p].orderId, procs[p].paymentId,
                                       procs[p].signature)
            /\ procs'[p].pc = "idle" )
          => ( /\ procs'[p].outcome = "SIGNATURE_MISMATCH"
               /\ payments'[procs[p].snap.idx].status = "FAILED"
               /\ \A t \in Tenants :
                     tenants'[t].sub.status = tenants[t].sub.status )]_vars

\* C4: in every reachable state a tenant whose subscription is ACTIVE owns a
\* PaymentRecord in status COMPLETED.
C4_ActiveHasCompletedPayment ==
    \A t \in Tenants :
        (tenants[t].exists /\ tenants[t].sub.status = "ACTIVE")
            => HasCompletedPayment(payments, t)

\* C5: every PaymentRecord, and the provider order of every provider record,
\* carries the active catalog price of the record's (planCode, billingCycle)
\* in minor units (rupees * 100), whatever amount the caller supplied.
C5_AmountIsCatalogPrice ==
    \A i \in 1..Len(payments) :
        LET pay   == payments[i]
            price == getPlanPriceRupees(plans, pay.planCode, pay.billingCycle)
        IN  /\ price.ok
            /\ pay.amountPaise = price.rupees * 100
            /\ pay.method = "RAZORPAY" =>
                  gateway[pay.razorpayOrderId].amount = price.rupees * 100

\* C5 witness: a manual record whose submitted amount differs from the catalog
\* price, next to a provider record whose order was created by a request that
\* carried an amount.
C5_Witness ==
    \E i, j \in 1..Len(payments) :
        /\ payments[i].method = "MANUAL"
        /\ payments[i].clientAmountRupees # 0
        /\ payments[i].clientAmountRupees * 100 # payments[i].amountPaise
        /\ payments[j].method = "RAZORPAY"
        /\ gateway[payments[j].razorpayOrderId].amount = payments[j].amountPaise

\* C9: submitManualPayment adds one PENDING MANUAL record, leaves the tenant's
\* subscription status equal to its value before the call and never makes the
\* tenant ACTIVE.
C9_ManualKeepsStatus ==
    [][( /\ Len(payments') = Len(payments) + 1
         /\ payments'[Len(payments')].method = "MANUAL" )
       => LET t == payments'[Len(payments')].tenantId
          IN  /\ payments'[Len(payments')].status = "PENDING"
              /\ SubSeq(payments', 1, Len(payments)) = payments
              /\ tenants'[t].sub.status = tenants[t].sub.status]_vars

\* C10: a confirmation with a valid signature of a PENDING provider record
\* owned by tenant T ends with the record COMPLETED, paymentId and signature
\* stored, and T ACTIVE with the record's planCode and billingCycle, whatever
\* payment operations T performed since the order was created.
C10_ValidConfirmActivates ==
    [][\A p \in Procs :
          ( /\ procs[p].pc \in {"found", "saved"}
            /\ procs[p].snap.status = "PENDING"
            /\ verifyPaymentSignature(procs[p].orderId, procs[p].paymentId,
                                      procs[p].signature)
            /\ ~PaymentIdTaken(payments, procs[p].snap.idx, procs[p].paymentId)
            /\ procs'[p].pc = "idle" )
          => LET pay == payments'[procs[p].snap.idx]
                 sub == tenants'[pay.tenantId].sub
             IN  /\ procs'[p].outcome = "COMPLETED"
                 /\ pay.status = "COMPLETED"
                 /\ pay.razorpayPaymentId = procs[p].paymentId
                 /\ pay.razorpaySignature = procs[p].signature
                 /\ sub.status = "ACTIVE"
                 /\ sub.plan = pay.planCode
                 /\ sub.billingCycle = pay.billingCycle]_vars

(***************************************************************************)
(* Properties of the doctor-seat checks                                    *)
(***************************************************************************)
\* C6: for a tenant whose subscription status is not ACTIVE, every revision of
\* the seat check answers SubscriptionInactive, for every plan and every seat
\* count, and the doctor creation is not admitted.
C6_InactiveIsRefused ==
    (chk.variant # "" /\ seat.status # "ACTIVE")
        => (chk.outcome = "SUBSCRIPTION_INACTIVE" /\ chk.countCalls = 0)

\* C6 witness: the service check has refused a PAST_DUE tenant of the
\* unlimited tier that has no doctor yet.
C6_Witness ==
    /\ chk.variant = "service"
    /\ seat.status = "PAST_DUE"
    /\ seat.plan = "PROFESSIONAL"
    /\ seat.count = 0
    /\ chk.outcome = "SUBSCRIPTION_INACTIVE"

\* Seat limits of the tier table (PRO 3, ENTERPRISE 5).
TierLimit(plan) ==
    CASE plan = "PRO" -> 3 [] plan = "ENTERPRISE" -> 5 [] OTHER -> 0

\* C7: for an ACTIVE tenant on a plan with finite seat limit L, the service
\* check and the route middleware admit the creation exactly when the number
\* of non-archived doctors is in 0..L-1, and refuse it with
\* SeatLimitReached(plan, L) for every count >= L (PRO: L = 3).
C7_FiniteLimit ==
    ( /\ chk.variant \in {"service", "middleware"}
      /\ seat.status = "ACTIVE"
      /\ TierLimit(seat.plan) > 0 )
    => LET L == TierLimit(seat.plan)
       IN  /\ seat.count < L => chk.outcome = "OK"
           /\ seat.count >= L =>
                 /\ chk.outcome = "DOCTOR_LIMIT_REACHED"
                 /\ chk.plan = seat.plan
                 /\ chk.limit = L

\* C7 witness: the service check has refused the 4th doctor of an ACTIVE PRO
\* tenant, naming the plan and the limit 3.
C7_Witness ==
    /\ chk.variant = "service"
    /\ seat.status = "ACTIVE"
    /\ seat.plan = "PRO"
    /\ seat.count = 3
    /\ chk.outcome = "DOCTOR_LIMIT_REACHED"
    /\ chk.limit = 3

\* C8: for an ACTIVE tenant on the unlimited tier, the seat check admits the
\* creation for every seat count and never issues the seat-count query.
C8_UnlimitedNeverCounts ==
    ( /\ chk.variant \in {"service", "middleware", "serviceV2"}
      /\ seat.status = "ACTIVE"
      /\ seat.plan = "PROFESSIONAL" )
    => (chk.outcome = "OK" /\ chk.countCalls = 0)

(***************************************************************************)
(* Properties of registration, verification and the subscription status    *)
(***************************************************************************)
\* The step of verifyUserEmail for the owner of tenant t.
VerifiedStep(t) == ~tenants[t].verified /\ tenants'[t].verified

Emails          == {"a@clinic", "b@clinic"}
RegistrationIds == {1, 2}

\* Variant of the user insert that leaves out { session }: the document is
\* written to the collection at once.
CreateUserNoSession(r, doc) ==
    [r EXCEPT !.users = @ \cup {doc}, !.tx.user = doc, !.tx.pc = "userCreated"]

\* User.create([...], { session }): the document is part of the transaction.
CreateUserInSession(r, doc) ==
    [r EXCEPT !.tx.user = doc, !.tx.pc = "userCreated"]

\* Tenant.create([...], { session })
CreateTenantInSession(r, doc) ==
    [r EXCEPT !.tx.tenant = doc, !.tx.pc = "tenantCreated"]

\* catch: session.abortTransaction() discards what the session wrote; the
\* error is thrown to the caller.
AbortTransaction(r, why) ==
    [r EXCEPT !.tx = NoTx, !.outcome = why, !.failedAt = r.tx.pc]

RegUnchanged ==
    UNCHANGED <<plans, tenants, payments, gateway, procs, log, seat, chk, ord, doctors>>

\* session.startTransaction()
RegBegin ==
    \E e \in Emails, id \in RegistrationIds, rp \in RegistrationPlans :
        /\ reg.tx.pc = "idle"
        /\ reg' = [reg EXCEPT !.tx = [NoTx EXCEPT !.pc = "started", !.email = e,
                                                  !.registrationId = id,
                                                  !.plan = getPlanDetails(rp)],
                              !.outcome = "none", !.failedAt = ""]
        /\ RegUnchanged

\* 1) User.findOne({ email }): "Email already registered."
RegCheckEmail ==
    /\ reg.tx.pc = "started"
    /\ reg' = IF \E u \in reg.users : u.email = reg.tx.email
              THEN AbortTransaction(reg, "EMAIL_TAKEN")
              ELSE [reg EXCEPT !.tx.pc = "emailFree"]
    /\ RegUnchanged

\* 2) Tenant.findOne({ registrationId }): "Clinic Registration ID already in use."
RegCheckClinic ==
    /\ reg.tx.pc = "emailFree"
    /\ reg' = IF \E c \in reg.clinics : c.registrationId = reg.tx.registrationId
              THEN AbortTransaction(reg, "REGISTRATION_ID_TAKEN")
              ELSE [reg EXCEPT !.tx.pc = "clinicFree"]
    /\ RegUnchanged

\* 3), 4) bcrypt.hash, User.create
RegCreateUser ==
    /\ reg.tx.pc = "clinicFree"
    /\ reg' = CreateUserInSession(reg,
                 [email |-> reg.tx.email, role |-> "CLINIC_ADMIN",
                  isVerified |-> FALSE, tenantId |-> 0])
    /\ RegUnchanged

\* 5) Tenant.create; the schema's plan enum rejects an unknown plan
RegCreateTenant ==
    /\ reg.tx.pc = "userCreated"
    /\ reg' = IF reg.tx.plan \notin ALLOWED_PLANS
              THEN AbortTransaction(reg, "VALIDATION_FAILED")
              ELSE CreateTenantInSession(reg,
                      [registrationId |-> reg.tx.registrationId,
                       ownerId |-> reg.tx.email, plan |-> reg.tx.plan,
                       status |-> "PENDING_VERIFICATION"])
    /\ RegUnchanged

\* 6) userDoc.tenantId = tenantDoc._id; userDoc.save({ session })
RegLink ==
    /\ reg.tx.pc = "tenantCreated"
    /\ reg' = [reg EXCEPT !.tx.user.tenantId = reg.tx.tenant.registrationId,
                          !.tx.pc = "linked"]
    /\ RegUnchanged

\* session.commitTransaction(): the session's documents become visible together
RegCommit ==
    /\ reg.tx.pc = "linked"
    /\ reg' = [reg EXCEPT !.users = (@ \ {u \in @ : u.email = reg.tx.email})
                                        \cup {reg.tx.user},
                          !.clinics = @ \cup {reg.tx.tenant},
                          !.tx.pc = "committed"]
    /\ RegUnchanged

\* after the commit: OTP stored, mail sent (best effort), { user, tenant } returned
RegNotify ==
    /\ reg.tx.pc = "committed"
    /\ reg' = [reg EXCEPT !.tx = NoTx, !.outcome = "REGISTERED", !.failedAt = ""]
    /\ RegUnchanged

\* any await of the try block throws (after the commit: storing the OTP);
\* the catch block aborts what is left of the transaction
RegFail ==
    /\ reg.tx.pc # "idle"
    /\ reg' = AbortTransaction(reg, "FAILED")
    /\ RegUnchanged

RegInit ==
    /\ plans = PaymentCatalog
    /\ tenants = [t \in Tenants |-> NoTenant]
    /\ payments = <<>>
    /\ gateway = <<>>
    /\ procs = [p \in Procs |-> IdleProc]
    /\ log = <<>>
    /\ seat = NoSeat
    /\ chk = NoCheck
    /\ reg = NoReg
    /\ ord = NoOrd
    /\ doctors = NoDoctors

RegNext ==
    \/ RegBegin
    \/ RegCheckEmail
    \/ RegCheckClinic
    \/ RegCreateUser
    \/ RegCreateTenant
    \/ RegLink
    \/ RegCommit
    \/ RegNotify
    \/ RegFail

SpecReg == RegInit /\ [][RegNext]_vars

\* C12: in every state of a run of registerClinicTransaction, whichever step
\* has failed, every persisted user is a CLINIC_ADMIN linked to a persisted
\* tenant that names it as owner, and every persisted tenant has its owner
\* persisted and linked back: never a user without its tenant or a tenant
\* without its owner.
C12_RegistrationAtomic ==
    /\ \A u \in reg.users :
          /\ u.role = "CLINIC_ADMIN"
          /\ \E c \in reg.clinics :
                c.registrationId = u.tenantId /\ c.ownerId = u.email
    /\ \A c \in reg.clinics :
          \E u \in reg.users :
              u.email = c.ownerId /\ u.tenantId = c.registrationId

\* C12 witness: one registration is persisted, user and tenant cross-linked,
\* and a later registration has failed after its tenant insert.
C12_Witness ==
    /\ Cardinality(reg.users) = 1
    /\ Cardinality(reg.clinics) = 1
    /\ reg.tx.pc = "idle"
    /\ reg.outcome = "FAILED"
    /\ reg.failedAt = "tenantCreated"

(***************************************************************************)
(* createRazorpayOrderService as a process: the provider call and the two  *)
(* database writes are separate awaits, and each of them may throw         *)
(***************************************************************************)
OrdUnchanged == UNCHANGED <<plans, procs, seat, chk, reg, doctors>>

\* The call has thrown: nothing it wrote is taken back.
OrderThrows(o, why) == [o EXCEPT !.pc = "idle", !.outcome = why]

\* Tenant.findById, getPlanPriceRupees, toPaise: throws before anything is
\* written when the tenant is missing or the plan has no valid price.
OrderBegin ==
    \E t \in PayingTenants, rp \in RawPlans, rc \in RawCycles :
        LET price == getPlanPriceRupees(plans, rp, rc)
        IN  /\ ord.pc = "idle"
            /\ protectPayment(t)
            /\ Len(payments) < MaxPayments
            /\ Len(gateway) < MaxOrders
            /\ ord' = IF ~price.ok
                      THEN [NoOrd EXCEPT !.tenantId = t, !.outcome = price.error,
                                         !.nPayments = Len(payments),
                                         !.sub = tenants[t].sub]
                      ELSE [NoOrd EXCEPT !.pc = "priced", !.tenantId = t,
                                         !.code = price.code, !.cycle = price.cycle,
                                         !.amountPaise = toPaise(price.rupees),
                                         !.nPayments = Len(payments),
                                         !.sub = tenants[t].sub]
            /\ UNCHANGED <<tenants, payments, gateway, log>>
            /\ OrdUnchanged

\* order = await razorpay.orders.create(options)
OrderGateway ==
    /\ ord.pc = "priced"
    /\ gateway' = Append(gateway, [amount |-> ord.amountPaise, tenantId |-> ord.tenantId])
    /\ ord' = [ord EXCEPT !.pc = "ordered", !.orderId = Len(gateway) + 1]
    /\ UNCHANGED <<tenants, payments, log>>
    /\ OrdUnchanged

\* catch (err) of razorpay.orders.create: throw new Error(msg)
OrderGatewayFails ==
    /\ ord.pc = "priced"
    /\ ord' = OrderThrows(ord, "ORDER_CREATION_FAILED")
    /\ UNCHANGED <<tenants, payments, gateway, log>>
    /\ OrdUnchanged

\* await Payment.create({... status: "PENDING", razorpayOrderId: order.id })
OrderPaymentCreate ==
    /\ ord.pc = "ordered"
    /\ ~OrderIdTaken(payments, ord.orderId)
    /\ payments' = Append(payments,
          NewPayment(ord.tenantId, ord.code, ord.cycle, ord.amountPaise,
                     "RAZORPAY", ord.orderId, "", 0))
    /\ log' = Append(log, NoLog)
    /\ ord' = [ord EXCEPT !.pc = "recorded"]
    /\ UNCHANGED <<tenants, gateway>>
    /\ OrdUnchanged

\* Payment.create rejects (database error)
OrderPaymentCreateFails ==
    /\ ord.pc = "ordered"
    /\ ord' = OrderThrows(ord, "PAYMENT_CREATE_FAILED")
    /\ UNCHANGED <<tenants, payments, gateway, log>>
    /\ OrdUnchanged

\* await Tenant.updateOne({ _id: tenantId }, { $set: plan, billingCycle,
\* razorpayOrderId, status: "PENDING_VERIFICATION" }); return
OrderTenantUpdate ==
    /\ ord.pc = "recorded"
    /\ tenants' = [tenants EXCEPT ![ord.tenantId].sub =
          [@ EXCEPT !.plan = ord.code,
                    !.billingCycle = ord.cycle,
                    !.razorpayOrderId = ord.orderId,
                    !.status = "PENDING_VERIFICATION"]]
    /\ ord' = [ord EXCEPT !.pc = "idle", !.outcome = "OK"]
    /\ UNCHANGED <<payments, gateway, log>>
    /\ OrdUnchanged

\* Tenant.updateOne rejects (database error)
OrderTenantUpdateFails ==
    /\ ord.pc = "recorded"
    /\ ord' = OrderThrows(ord, "TENANT_UPDATE_FAILED")
    /\ UNCHANGED <<tenants, payments, gateway, log>>
    /\ OrdUnchanged

OrderNext ==
    \/ OrderBegin
    \/ OrderGateway
    \/ OrderGatewayFails
    \/ OrderPaymentCreate
    \/ OrderPaymentCreateFails
    \/ OrderTenantUpdate
    \/ OrderTenantUpdateFails

SpecOrder == RaceInit /\ [][OrderNext]_vars

\* C13: beginProviderPayment is all-or-nothing: whenever a call has ended in
\* a failure (OrderCreationFailed when the provider call failed), the ledger
\* holds no PaymentRecord of that attempt and the tenant's subscription is
\* what it was when the call began.
C13_OrderAllOrNothing ==
    (ord.pc = "idle" /\ ord.outcome \notin {"none", "OK"})
        => /\ Len(payments) = ord.nPayments
           /\ tenants[ord.tenantId].sub = ord.sub

(***************************************************************************)
(* Properties of the already-COMPLETED branch and of retries               *)
(***************************************************************************)
\* The step by which call p returns through the already-COMPLETED branch.
CompletedBranchStep(p) ==
    /\ procs[p].pc = "found"
    /\ AlreadyCompleted(procs[p].snap)
    /\ procs'[p].pc = "idle"

\* C14 (as stated): a confirmation of a record that is already COMPLETED
\* returns the stored result and writes nothing to the tenant's subscription,
\* whatever the tenant's subscription status is.
C14_CompletedBranchWritesNothing ==
    [][\A p \in Procs :
          CompletedBranchStep(p) =>
              /\ procs'[p].outcome = "COMPLETED"
              /\ payments' = payments
              /\ tenants' = tenants]_vars

\* C14 (amended): a confirmation of a record that is already COMPLETED returns
\* the stored result whatever signature was supplied and leaves the
\* PaymentRecord as it is; it leaves the subscription of an ACTIVE tenant
\* unchanged, and for a tenant that is not ACTIVE it sets status ACTIVE, the
\* record's planCode, the record's paymentId and activatedAt, and nothing else.
C14_CompletedBranchSelfHeals ==
    [][\A p \in Procs :
          CompletedBranchStep(p) =>
              LET pay == payments[procs[p].snap.idx]
                  t   == pay.tenantId
              IN  /\ procs'[p].outcome = "COMPLETED"
                  /\ payments' = payments
                  /\ \A u \in Tenants \ {t} : tenants'[u] = tenants[u]
                  /\ tenants[t].sub.status = "ACTIVE" => tenants'[t] = tenants[t]
                  /\ tenants[t].sub.status # "ACTIVE" =>
                        tenants'[t] = [tenants[t] EXCEPT
                            !.sub.status = "ACTIVE",
                            !.sub.plan = pay.planCode,
                            !.sub.razorpayPaymentId = pay.razorpayPaymentId,
                            !.sub.activatedAt = 1]]_vars

\* C14 witness: a call has returned through the already-COMPLETED branch for
\* a record whose activation write never matched, and the tenant is ACTIVE
\* with that record's plan and paymentId.
C14_Witness ==
    \E p \in Procs, i \in 1..Len(payments) :
        /\ procs[p].pc = "idle"
        /\ procs[p].branch = "idempotent"
        /\ procs[p].outcome = "COMPLETED"
        /\ payments[i].status = "COMPLETED"
        /\ log[i].activations = 0
        /\ tenants[payments[i].tenantId].sub.status = "ACTIVE"
        /\ tenants[payments[i].tenantId].sub.plan = payments[i].planCode
        /\ tenants[payments[i].tenantId].sub.razorpayPaymentId = payments[i].razorpayPaymentId
        /\ tenants[payments[i].tenantId].sub.razorpayOrderId # payments[i].razorpayOrderId

StatusRank(st) ==
    CASE st = "PENDING_VERIFICATION" -> 1
      [] st = "PENDING_PAYMENT"      -> 2
      [] st = "ACTIVE"               -> 3
      [] st = "PAST_DUE"             -> 4
      [] st = "CANCELED"             -> 4
      [] OTHER                       -> 0

\* C16: over any sequence of operations a tenant's subscription status only
\* moves forward along the chain, the only backward moves being PAST_DUE ->
\* ACTIVE and CANCELED -> ACTIVE; in particular an ACTIVE tenant never returns
\* to PENDING_VERIFICATION or PENDING_PAYMENT.
C16_StatusMonotonic ==
    [][\A t \in Tenants :
          \/ StatusRank(tenants'[t].sub.status) >= StatusRank(tenants[t].sub.status)
          \/ /\ tenants[t].sub.status \in {"PAST_DUE", "CANCELED"}
             /\ tenants'[t].sub.status = "ACTIVE"]_vars

(***************************************************************************)
(* Properties of the ledger's identity keys and of the lookup               *)
(***************************************************************************)
\* C17: in every reachable state no two PaymentRecords share a provider order
\* id that is present, nor a provider payment id that is present; and a
\* confirmation whose save would store a payment id another record holds is
\* rejected and leaves the ledger unchanged.
C17_UniqueProviderIds ==
    /\ [](\A i, j \in 1..Len(payments) :
            i # j =>
              /\ payments[i].razorpayOrderId # 0 =>
                    payments[i].razorpayOrderId # payments[j].razorpayOrderId
              /\ payments[i].razorpayPaymentId # 0 =>
                    payments[i].razorpayPaymentId # payments[j].razorpayPaymentId)
    /\ [][\A p \in Procs :
            ( /\ procs[p].pc = "found"
              /\ PaymentIdTaken(payments, procs[p].snap.idx, procs[p].paymentId)
              /\ procs[p].paymentId # procs[p].snap.razorpayPaymentId
              /\ ~AlreadyCompleted(procs[p].snap)
              /\ procs'[p].pc # "found" )
            => ( /\ procs'[p].pc = "idle"
                 /\ procs'[p].outcome = "DUPLICATE_KEY"
                 /\ payments' = payments )]_vars

\* C17 witness: a confirmation was rejected with a duplicate-key error while
\* another record holds the payment id it supplied, and the rejected record
\* holds none.
C17_Witness ==
    \E p \in Procs, i, j \in 1..Len(payments) :
        /\ procs[p].pc = "idle"
        /\ procs[p].outcome = "DUPLICATE_KEY"
        /\ i # j
        /\ payments[i].razorpayPaymentId # 0
        /\ payments[j].razorpayPaymentId = 0
        /\ payments[j].method = "RAZORPAY"
        /\ payments[j].status = "PENDING"

(***************************************************************************)
(* POST /api/payments/verify: the controller around the confirmation        *)
(***************************************************************************)
\* verifyOrder: the service runs first and the ownership test is applied to
\* its return value; an error thrown by the service is handed to next(err)
\* by catchAsync before the ownership test is reached.
verifyOrder(tenantId, pays, tens, orderId, pid, sig) ==
    LET reply(code, ps, ts) == [response |-> code, pays |-> ps, tens |-> ts]
    IN  IF tenantId = 0
        THEN reply("401", pays, tens)
        ELSE IF orderId = 0 \/ pid = 0 \/ sig = NoSignature
        THEN reply("400", pays, tens)
        ELSE LET r == confirmRazorpayPaymentService(pays, tens, orderId, pid, sig)
             IN  IF r.result.status # "COMPLETED"
                 THEN reply("next(err)", r.pays, r.tens)
                 ELSE IF r.result.tenantId # tenantId
                 THEN reply("403", r.pays, r.tens)
                 ELSE reply("200", r.pays, r.tens)

\* C18: a confirmation request whose authenticated tenant differs from the
\* tenant owning the referenced PaymentRecord is answered with 403 and never
\* with a success response, whether the signature is valid or not.
C18_ForeignTenantGets403 ==
    \A i \in 1..Len(payments), caller \in Tenants, pid \in PaymentIds :
        \A sig \in SignaturesFor(payments[i].razorpayOrderId, pid) :
            ( /\ payments[i].razorpayOrderId # 0
              /\ payments[i].tenantId # caller )
            => verifyOrder(caller, payments, tenants,
                           payments[i].razorpayOrderId, pid, sig).response = "403"

\* C19: a confirmation for a provider order id that no PaymentRecord carries
\* fails with "Payment record not found", whatever payment id and signature
\* are supplied, and changes no PaymentRecord and no tenant.
C19_UnknownOrderNotFound ==
    /\ [](\A o \in OrderIdInputs, pid \in PaymentIds :
            \A sig \in SignaturesFor(o, pid) :
                (\A i \in 1..Len(payments) : payments[i].razorpayOrderId # o)
                => LET r == confirmRazorpayPaymentService(payments, tenants, o, pid, sig)
                   IN  /\ r.result = ErrorResult("PAYMENT_NOT_FOUND")
                       /\ r.pays = payments
                       /\ r.tens = tenants
                       /\ r.paymentWrites = 0
                       /\ r.tenantWrites = 0)
    /\ [][\A p \in Procs :
            ( /\ procs'[p] # procs[p]
              /\ procs'[p].branch = "notfound" )
            => ( /\ procs'[p].outcome = "PAYMENT_NOT_FOUND"
                 /\ procs'[p].pc = "idle"
                 /\ payments' = payments
                 /\ tenants' = tenants
                 /\ log' = log )]_vars

\* C19 witness: with records in the ledger, a confirmation for an order id
\* none of them carries has returned "not found".
C19_Witness ==
    \E p \in Procs :
        /\ procs[p].pc = "idle"
        /\ procs[p].branch = "notfound"
        /\ procs[p].outcome = "PAYMENT_NOT_FOUND"
        /\ Len(payments) >= 1
        /\ \E i \in 1..Len(payments) : payments[i].status = "PENDING"

\* C20: for an ACTIVE tenant whose plan code is unknown to the catalog or
\* whose plan is disabled, the seat check fails with a plan-not-found error
\* (neither success nor a seat-limit error), for every seat count.
C20_UnknownPlanIsPlanNotFound ==
    ( /\ chk.outcome # "none"
      /\ toUpperCase(seat.status) = "ACTIVE"
      /\ \/ toUpperCase(seat.plan) \notin DOMAIN plans
         \/ ~plans[toUpperCase(seat.plan)].isActive )
    => chk.outcome \in {"PLAN_NOT_FOUND", "PLAN_NOT_ALLOWED", "PLAN_MISSING"}

(***************************************************************************)
(* POST /api/doctors: enforceDoctorLimit, then DoctorService.createDoctor   *)
(* (assertTenantCanAddDoctor, then Doctor.create), each an await of its own *)
(***************************************************************************)
\* The clinic whose admin sends the doctor requests (req.user.tenantId)
ClinicTenant == CHOOSE t \in PayingTenants : TRUE

\* Route middleware: next() when the check admits the request, a 4xx response
\* otherwise.
DoctorMiddleware(r) ==
    LET t == tenants[ClinicTenant]
        c == enforceDoctorLimit(t.sub.status, t.sub.plan, doctors.count)
    IN  /\ doctors.req[r] = "idle"
        /\ doctors' = [doctors EXCEPT !.req[r] =
              IF t.exists /\ c.outcome = "OK" THEN "admitted" ELSE "idle"]
        /\ UNCHANGED <<plans, tenants, payments, gateway, procs, log, seat, chk, reg, ord>>

\* createDoctor, first await: this.assertTenantCanAddDoctor(tenantId)
DoctorAssert(r) ==
    LET t == tenants[ClinicTenant]
        c == assertTenantCanAddDoctor(t.sub.status, t.sub.plan, doctors.count)
    IN  /\ doctors.req[r] = "admitted"
        /\ doctors' = [doctors EXCEPT !.req[r] =
              IF t.exists /\ c.outcome = "OK" THEN "asserted" ELSE "idle"]
        /\ UNCHANGED <<plans, tenants, payments, gateway, procs, log, seat, chk, reg, ord>>

\* createDoctor, second await: Doctor.create succeeds
DoctorCreate(r) ==
    /\ doctors.req[r] = "asserted"
    /\ doctors.count + doctors.deleted < MaxSeats
    /\ doctors' = [doctors EXCEPT !.req[r] = "idle", !.count = @ + 1]
    /\ UNCHANGED <<plans, tenants, payments, gateway, procs, log, seat, chk, reg, ord>>

\* createDoctor, second await: Doctor.create rejects (duplicate e-mail in the
\* clinic, validation)
DoctorCreateFails(r) ==
    /\ doctors.req[r] = "asserted"
    /\ doctors' = [doctors EXCEPT !.req[r] = "idle"]
    /\ UNCHANGED <<plans, tenants, payments, gateway, procs, log, seat, chk, reg, ord>>

\* softDeleteDoctor: findOneAndUpdate {_id, tenantId} sets isDeleted; the
\* schema's pre(/^find/) hook hides a doctor that is deleted already, so that
\* call ends in DOCTOR_NOT_FOUND and changes nothing.
softDeleteDoctor ==
    /\ \E target \in {"active", "deleted"} :
          /\ target = "active"  => doctors.count > 0
          /\ target = "deleted" => doctors.deleted > 0
          /\ doctors' = IF target = "active"
                        THEN [doctors EXCEPT !.count = @ - 1, !.deleted = @ + 1]
                        ELSE doctors
    /\ UNCHANGED <<plans, tenants, payments, gateway, procs, log, seat, chk, reg, ord>>

\* An ACTIVE clinic on a tier with a finite limit, no doctors yet
DoctorInit ==
    /\ plans = PaymentCatalog
    /\ \E code \in {"PRO", "ENTERPRISE"} :
          tenants = [t \in Tenants |->
              IF t = ClinicTenant
              THEN [exists |-> TRUE, verified |-> TRUE,
                    sub |-> [NoSubscription EXCEPT !.plan = code, !.status = "ACTIVE"]]
              ELSE NoTenant]
    /\ payments = <<>>
    /\ gateway = <<>>
    /\ procs = [p \in Procs |-> IdleProc]
    /\ log = <<>>
    /\ seat = NoSeat
    /\ chk = NoCheck
    /\ reg = NoReg
    /\ ord = NoOrd
    /\ doctors = NoDoctors

DoctorNext ==
    \/ \E r \in Requests : DoctorMiddleware(r)
    \/ \E r \in Requests : DoctorAssert(r)
    \/ \E r \in Requests : DoctorCreate(r)
    \/ \E r \in Requests : DoctorCreateFails(r)
    \/ softDeleteDoctor

SpecDoctor == DoctorInit /\ [][DoctorNext]_vars

\* C21: under every interleaving of concurrent doctor-creation requests of an
\* ACTIVE clinic on a tier with finite limit L, the number of non-archived
\* doctors never exceeds L + 1.
C21_OvershootAtMostOne ==
    LET sub   == tenants[ClinicTenant].sub
        limit == getPlanLimit(sub.plan)
    IN  (toUpperCase(sub.status) = "ACTIVE" /\ ~limit.inf)
        => doctors.count <= limit.n + 1

(***************************************************************************)
(* PUT /api/tenants/update: updateProfile and updateTenantSettings          *)
(***************************************************************************)
\* Keys a JSON request body may carry, and the values tried for them. The
\* value of "subscription" is an object, written here by its text.
BodyKeys == {"name", "subscription", "subscription.status", "subscription.plan"}

BodyValues == {"ACTIVE", "PAST_DUE", "CANCELED", "PROFESSIONAL", "FREE"}

Bodies == UNION { [K -> BodyValues] : K \in SUBSET BodyKeys }

\* Restriction of an object to the keys in K
Pick(obj, K) == [k \in (DOMAIN obj \cap K) |-> obj[k]]

\* pickAllowedTenantUpdate: whitelist of profile fields
pickAllowedTenantUpdate(body) ==
    Pick(body, {"name", "address", "description", "tags", "settings"})

\* updateTenantSettings: finalUpdate = {...updateData} without the keys
\* "settings" (flattened to settings.*), "subscription" and "ownerId";
\* Tenant.findByIdAndUpdate(tenantId, {$set: finalUpdate}, {runValidators})
updateTenantSettings(tens, t, updateData) ==
    LET finalUpdate == Pick(updateData,
                            DOMAIN updateData \ {"settings", "subscription", "ownerId"})
        has(k)      == k \in DOMAIN finalUpdate
        valid       == /\ has("subscription.status") =>
                              finalUpdate["subscription.status"] \in SubscriptionStatuses
                       /\ has("subscription.plan") =>
                              finalUpdate["subscription.plan"] \in ALLOWED_PLANS
    IN  IF ~tens[t].exists \/ ~valid
        THEN tens
        ELSE [tens EXCEPT
                ![t].sub.status = IF has("subscription.status")
                                  THEN finalUpdate["subscription.status"] ELSE @,
                ![t].sub.plan   = IF has("subscription.plan")
                                  THEN finalUpdate["subscription.plan"] ELSE @]

\* updateProfile of controllers/tenantController.js: req.body goes to the
\* service as it is.
updateProfile(t) ==
    /\ \E body \in Bodies : tenants' = updateTenantSettings(tenants, t, body)
    /\ UNCHANGED <<plans, payments, gateway, procs, log, seat, chk, reg, ord, doctors>>

\* updateProfile of the other revision: the body passes the whitelist first.
updateProfileSafe(t) ==
    /\ \E body \in Bodies :
          tenants' = updateTenantSettings(tenants, t, pickAllowedTenantUpdate(body))
    /\ UNCHANGED <<plans, payments, gateway, procs, log, seat, chk, reg, ord, doctors>>

\* Two registered clinics, each waiting for its first payment
ProfileInit ==
    /\ plans = PaymentCatalog
    /\ tenants \in [Tenants ->
          { [exists |-> TRUE, verified |-> TRUE,
             sub |-> [NoSubscription EXCEPT !.plan = code, !.status = st]] :
            code \in ALLOWED_PLANS, st \in {"PENDING_VERIFICATION", "ACTIVE"} }]
    /\ payments = <<>>
    /\ gateway = <<>>
    /\ procs = [p \in Procs |-> IdleProc]
    /\ log = <<>>
    /\ seat = NoSeat
    /\ chk = NoCheck
    /\ reg = NoReg
    /\ ord = NoOrd
    /\ doctors = NoDoctors

ProfileNext ==
    \/ \E t \in Tenants : updateProfile(t)
    \/ \E t \in Tenants : updateProfileSafe(t)

SpecProfile == ProfileInit /\ [][ProfileNext]_vars

\* C22: the profile/settings update leaves every field of tenant.subscription
\* unchanged for every request body, including bodies that carry a
\* "subscription" object or dotted "subscription.*" keys.
C22_ProfileKeepsSubscription ==
    [][\A t \in Tenants : tenants'[t].sub = tenants[t].sub]_vars

\* C23: in every reachable state each provider-method PaymentRecord in status
\* COMPLETED carries a payment id and a signature that verify for its order
\* id: it was completed by a confirmation whose signature check succeeded for
\* the stored values.
C23_CompletedIsVerified ==
    \A i \in 1..Len(payments) :
        (payments[i].method = "RAZORPAY" /\ payments[i].status = "COMPLETED")
        => verifyPaymentSignature(payments[i].razorpayOrderId,
                                  payments[i].razorpayPaymentId,
                                  payments[i].razorpaySignature)

\* C24: a confirmation request authenticated as tenant B that references a
\* PaymentRecord owned by another tenant A changes nothing: the record's
\* status, stored payment id and signature, and both tenants' subscriptions
\* are the same after the request as before, for valid and invalid signatures.
C24_ForeignConfirmChangesNothing ==
    \A i \in 1..Len(payments), caller \in Tenants, pid \in PaymentIds :
        \A sig \in SignaturesFor(payments[i].razorpayOrderId, pid) :
            ( /\ payments[i].razorpayOrderId # 0
              /\ payments[i].tenantId # caller )
            => LET r == verifyOrder(caller, payments, tenants,
                                    payments[i].razorpayOrderId, pid, sig)
               IN  /\ r.pays[i].status = payments[i].status
                   /\ r.pays[i].razorpayPaymentId = payments[i].razorpayPaymentId
                   /\ r.pays[i].razorpaySignature = payments[i].razorpaySignature
                   /\ r.tens[payments[i].tenantId].sub = tenants[payments[i].tenantId].sub
                   /\ r.tens[caller].sub = tenants[caller].sub

\* C25: once a PaymentRecord is COMPLETED its status never changes again,
\* under every interleaving of concurrent confirmations of the same order, and
\* a tenant activated by an order never coexists with that order's record in
\* status FAILED.
C25_CompletedIsFinal ==
    /\ [][\A i \in 1..Len(payments) :
            payments[i].status = "COMPLETED" => payments'[i].status = "COMPLETED"]_vars
    /\ [](\A i \in 1..Len(payments) :
            ( /\ log[i].activations >= 1
              /\ tenants[payments[i].tenantId].sub.status = "ACTIVE" )
            => payments[i].status # "FAILED")

\* C26: a PaymentRecord leaves PENDING at most once: a record that a signature
\* mismatch has set to FAILED is never later set to COMPLETED, and no later
\* confirmation of that order activates the tenant.
C26_FailedIsFinal ==
    [][\A i \in 1..Len(payments) :
          payments[i].status = "FAILED"
          => /\ payments'[i].status = "FAILED"
             /\ log'[i].activations = log[i].activations]_vars

\* C27: if registerClinicTransaction reports a failure to its caller, then no
\* user and no tenant of that call are persisted, whichever step failed,
\* including the OTP-store write and the mail send that follow the commit.
C27_FailureLeavesNothing ==
    [][( /\ reg.tx.pc # "idle"
         /\ reg'.tx.pc = "idle"
         /\ reg'.outcome # "REGISTERED" )
       => ( /\ reg.tx.user \notin reg'.users
            /\ reg.tx.tenant \notin reg'.clinics )]_vars

\* C28: the two seat checks on the doctor-creation path agree: for every
\* subscription status, plan code and seat count, the route middleware admits
\* the request exactly when the service-layer check of the same revision
\* admits it.
C28_ChecksAgree ==
    LET admits(c) == c.outcome = "OK"
    IN  /\ admits(enforceDoctorLimit(seat.status, seat.plan, seat.count))
           <=> admits(assertTenantCanAddDoctor(seat.status, seat.plan, seat.count))
        /\ admits(enforceDoctorLimitDb(plans, seat.status, seat.plan, seat.count))
           <=> admits(assertTenantCanAddDoctorV2(seat.status, seat.plan, seat.count))

\* C29: in every reachable state the subscription.plan of an ACTIVE tenant is
\* the planCode of some COMPLETED PaymentRecord the tenant owns, under every
\* sequence and interleaving of order creation, manual submission and
\* confirmation.
C29_ActivePlanIsPaid ==
    \A t \in Tenants :
        (tenants[t].exists /\ tenants[t].sub.status = "ACTIVE")
        => \E i \in 1..Len(payments) :
              /\ payments[i].tenantId = t
              /\ payments[i].status = "COMPLETED"
              /\ payments[i].planCode = tenants[t].sub.plan

(***************************************************************************)
(* One clinic: plan changes through the payment flow, doctor requests one   *)
(* at a time, soft deletes                                                  *)
(***************************************************************************)
\* Doctor requests that do not overlap: one open request at a time
SeqRequests == {1}

\* The clinic chooses a tier: POST /api/payments/create-order
ChoosePlan ==
    \E t \in PayingTenants, rp \in {"pro", "PROFESSIONAL"} :
        /\ protectPayment(t)
        /\ createRazorpayOrderService(t, rp, "", 0)

ClinicNext ==
    \/ ChoosePlan
    \/ ConfirmBegin(SeqProcs)
    \/ ConfirmStep(SeqProcs)
    \/ \E r \in SeqRequests : DoctorMiddleware(r)
    \/ \E r \in SeqRequests : DoctorAssert(r)
    \/ \E r \in SeqRequests : DoctorCreate(r)
    \/ \E r \in SeqRequests : DoctorCreateFails(r)
    \/ softDeleteDoctor

SpecClinic == RaceInit /\ [][ClinicNext]_vars

\* C30: when the doctor-creation requests of a tenant do not overlap, the
\* number of non-archived doctors never exceeds the doctor limit of the
\* tenant's current plan, across creations, soft deletes and plan changes made
\* through the payment operations.
C30_CountWithinCurrentLimit ==
    LET sub   == tenants[ClinicTenant].sub
        limit == getPlanLimit(sub.plan)
    IN  (sub.status = "ACTIVE" /\ ~limit.inf) => doctors.count <= limit.n
=============================================================================
